---------------------------- MODULE Spec2Model ----------------------------
(***************************************************************************)
(* Model of fix_all_auth_tokens.py: main() walks the fixed list            *)
(* files_to_fix, and fix_file() reads a file, applies two global regular   *)
(* expression substitutions in order, and writes the file back only when   *)
(* the text changed.                                                       *)
(*                                                                         *)
(* Text is a sequence of lexemes.  Each lexeme stands for one literal      *)
(* piece of text of the patterns or of the replacement templates:          *)
(*   "D"   const token = localStorage.getItem('auth_token');               *)
(*   "I"   if (!token) {                                                   *)
(*   "H"   window.location.href = '/';                                     *)
(*   "R"   return;                                                         *)
(*   "C"   }                                                               *)
(*   "W"   one space                                                       *)
(*   "NL"  one newline, "\n"                                               *)
(*   "NL4" a newline and four spaces, "NL8" a newline and eight spaces     *)
(*   "CM"  // Get Supabase session token                                   *)
(*   "GS"  const { data: { session } } = await                             *)
(*                              window.supabase.auth.getSession();         *)
(*   "IS"  if (!session) {                                                 *)
(*   "HI"  window.location.href = '/index.html';                           *)
(*   "TS"  const token = session.access_token;                             *)
(*   "TQ"  const token = session?.access_token;                            *)
(*   "X"   any other statement                                             *)
(* On disk a line end may also be the two bytes "\r\n", lexeme "CRLF".     *)
(***************************************************************************)
EXTENDS Integers, Sequences, FiniteSets, TLC

VARIABLES
    fs,                \* the directory: filepath -> bytes on disk, or Missing
    fs0,               \* fs as it was when the current run of main started
    run,               \* which invocation of the script this is (1, 2, ...)
    pc,                \* position of the single thread of control
    idx,               \* index into files_to_fix of the loop of main
    fixed_count,       \* main's local counter
    content,           \* fix_file's local `content`
    original_content,  \* fix_file's local `original_content`
    opens,             \* open(filepath, 'w') calls made by the current fix_file call
    output,            \* lines printed so far by the current run
    raised             \* open, read or write has raised an exception

vars == <<fs, fs0, run, pc, idx, fixed_count, content, original_content,
          opens, output, raised>>

-----------------------------------------------------------------------------
(* Bounds of the model *)

MaxChunks == 3
MaxPresent == 2
MaxRuns == 2

-----------------------------------------------------------------------------
(* Program constants *)

JS_DIR == "frontend/assets/js"

files_to_fix ==
    << "billings.js", "chatbot-ai.js", "device-settings.js",
       "flow-builder.js", "flow-manager.js", "packages.js",
       "profile.js", "set-stage.js", "whatsapp-bot.js" >>

\* os.path.join(JS_DIR, filename)
filepath(i) == JS_DIR \o "/" \o files_to_fix[i]

Paths == { filepath(i) : i \in 1..Len(files_to_fix) }

\* the value of a path that does not exist (no content holds this lexeme)
Missing == << "ENOENT" >>

\* "\s+" in a pattern; every other element of a pattern is a literal lexeme
WS1 == "\\s+"

pattern1 == << "D", WS1, "I", WS1, "H", WS1, "R", WS1, "C" >>

pattern2 == << "D" >>

\* the lexemes that consist of whitespace characters, which \s matches
IsSpace(x) == x \in { "W", "NL", "NL4", "NL8" }

\* Faulty variant: Rule A's template still ends with the old declaration
replacement1_keeps_lookup ==
    << "CM", "NL4", "GS", "NL4", "IS", "NL8", "HI", "NL8", "R", "NL4", "C",
       "NL4", "D" >>

\* the triple-quoted templates, with the line breaks and indentation they hold
replacement1 ==
    << "CM", "NL4", "GS", "NL4", "IS", "NL8", "HI", "NL8", "R", "NL4", "C",
       "NL4", "TS" >>

\* Faulty variant: Rule B's template keeps the old declaration as a fallback
replacement2_keeps_lookup == << "GS", "NL4", "D" >>

replacement2 == << "GS", "NL4", "TQ" >>

-----------------------------------------------------------------------------
(* re.sub *)

RECURSIVE SkipSpace(_, _)
\* first index at or after i of text that holds no whitespace character
SkipSpace(text, i) ==
    IF i <= Len(text) /\ IsSpace(text[i]) THEN SkipSpace(text, i + 1) ELSE i

RECURSIVE MatchFrom(_, _, _, _)
\* The index just after the match of pattern[k..] that starts at text[i],
\* or 0 when there is none.  \s+ is greedy and is always followed by a
\* literal that is no whitespace, so the longest run is the only candidate.
MatchFrom(pattern, k, text, i) ==
    IF k > Len(pattern) THEN i
    ELSE IF i > Len(text) THEN 0
    ELSE IF pattern[k] = WS1
         THEN IF IsSpace(text[i])
              THEN MatchFrom(pattern, k + 1, text, SkipSpace(text, i))
              ELSE 0
         ELSE IF text[i] = pattern[k]
              THEN MatchFrom(pattern, k + 1, text, i + 1)
              ELSE 0

RECURSIVE SubFrom_first_only(_, _, _, _)
\* Faulty variant: re.sub(..., count=1), only the first match is replaced
SubFrom_first_only(pattern, repl, text, i) ==
    IF i > Len(text) THEN << >>
    ELSE LET e == MatchFrom(pattern, 1, text, i)
         IN  IF e > 0
             THEN repl \o SubSeq(text, e, Len(text))
             ELSE << text[i] >> \o SubFrom_first_only(pattern, repl, text, i + 1)

RECURSIVE SubFrom(_, _, _, _)
\* left to right, leftmost match first, matches never overlap, and the
\* scan resumes after the text matched (never inside the text inserted)
SubFrom(pattern, repl, text, i) ==
    IF i > Len(text) THEN << >>
    ELSE LET e == MatchFrom(pattern, 1, text, i)
         IN  IF e > 0
             THEN repl \o SubFrom(pattern, repl, text, e)
             ELSE << text[i] >> \o SubFrom(pattern, repl, text, i + 1)

re_sub(pattern, repl, text) == SubFrom(pattern, repl, text, 1)

-----------------------------------------------------------------------------
(* File input and output in text mode *)

\* f.read() of a file opened with open(filepath, 'r', encoding='utf-8'):
\* universal newlines turn "\r\n" into "\n"
Decode(bytes) == [ k \in 1..Len(bytes) |-> IF bytes[k] = "CRLF" THEN "NL" ELSE bytes[k] ]

\* f.write(content) with os.linesep = "\n": the text goes out as it is
Encode(text) == text

\* What a failed open(filepath, 'w') / f.write can leave on disk: the old
\* bytes (the open failed) or a proper prefix of the new text (the file was
\* truncated and the write or flush failed)
FailedWriteOutcomes(old, text) ==
    { old } \cup { SubSeq(Encode(text), 1, k) : k \in 0..(Len(text) - 1) }

-----------------------------------------------------------------------------
(* Contents the files start with *)

GuardBlock == << "I", "W", "H", "W", "R", "W", "C" >>

Guard == << "D", "W" >> \o GuardBlock

BrokenBlock == << "I", "W", "H", "W", "C" >>

Chunks ==
    { << "D" >>, << "W" >>, << "X" >>, << "CRLF" >>, GuardBlock, Guard, BrokenBlock,
      replacement1, replacement2 }

RECURSIVE TextsUpTo(_)
TextsUpTo(n) ==
    IF n = 0 THEN { << >> }
    ELSE LET S == TextsUpTo(n - 1)
         IN  S \cup { t \o c : t \in S, c \in Chunks }

SampleTexts ==
    { << "X" >>,
      Guard,
      << "D", "CRLF", "X", "W", "D" >>,
      << "X", "CRLF" >> \o Guard \o << "W", "D" >> }

-----------------------------------------------------------------------------
(* Console lines *)

Notice(kind, path) == [ kind |-> kind, path |-> path ]

Summary(n) == [ kind |-> "Summary", n |-> n ]

-----------------------------------------------------------------------------
(* The program *)

StartOfRun ==
    /\ pc = "loop"
    /\ idx = 1
    /\ fixed_count = 0
    /\ content = << >>
    /\ original_content = << >>
    /\ opens = 0
    /\ output = << >>
    /\ raised = FALSE

\* several files, few contents
Init ==
    /\ \E P \in { Q \in SUBSET Paths : Cardinality(Q) <= MaxPresent } :
          \E f \in [ P -> SampleTexts ] :
             fs = [ p \in Paths |-> IF p \in P THEN f[p] ELSE Missing ]
    /\ fs0 = fs
    /\ run = 1
    /\ StartOfRun

\* one file, many contents
InitRules ==
    /\ \E t \in TextsUpTo(MaxChunks) :
          fs = [ p \in Paths |-> IF p = filepath(1) THEN t ELSE Missing ]
    /\ fs0 = fs
    /\ run = 1
    /\ StartOfRun

InLoop == pc = "loop" /\ idx <= Len(files_to_fix)

\* Faulty variant: a missing path raises instead of being reported
FileNotFound_raises ==
    /\ InLoop
    /\ fs[filepath(idx)] = Missing
    /\ raised' = TRUE
    /\ pc' = "crashed"
    /\ UNCHANGED <<fs, fs0, run, idx, fixed_count, content, original_content,
                   opens, output>>

\* main, the else branch: the path does not exist
FileNotFound ==
    /\ InLoop
    /\ fs[filepath(idx)] = Missing
    /\ output' = Append(output, Notice("NotFound", filepath(idx)))
    /\ idx' = idx + 1
    /\ UNCHANGED <<fs, fs0, run, pc, fixed_count, content, original_content,
                   opens, raised>>

\* main calls fix_file, which opens and reads the file
ReadFile ==
    /\ InLoop
    /\ fs[filepath(idx)] # Missing
    /\ content' = Decode(fs[filepath(idx)])
    /\ original_content' = content'
    /\ opens' = 0
    /\ pc' = "sub1"
    /\ UNCHANGED <<fs, fs0, run, idx, fixed_count, output, raised>>

\* Faulty variant: main catches the failure and goes on with the next entry
ReadFail_caught ==
    /\ InLoop
    /\ fs[filepath(idx)] # Missing
    /\ opens' = 0
    /\ raised' = TRUE
    /\ output' = Append(output, Notice("NotFound", filepath(idx)))
    /\ idx' = idx + 1
    /\ UNCHANGED <<fs, fs0, run, pc, fixed_count, content, original_content>>

\* open or read raises (permissions, bytes that are no UTF-8); nothing catches it
ReadFail ==
    /\ InLoop
    /\ fs[filepath(idx)] # Missing
    /\ opens' = 0
    /\ raised' = TRUE
    /\ pc' = "crashed"
    /\ UNCHANGED <<fs, fs0, run, idx, fixed_count, content, original_content,
                   output>>

\* Faulty variant: the bare pattern is substituted first
ApplyPattern1_bare_first ==
    /\ pc = "sub1"
    /\ content' = re_sub(pattern2, replacement2, content)
    /\ pc' = "sub2"
    /\ UNCHANGED <<fs, fs0, run, idx, fixed_count, original_content, opens,
                   output, raised>>

ApplyPattern1 ==
    /\ pc = "sub1"
    /\ content' = re_sub(pattern1, replacement1, content)
    /\ pc' = "sub2"
    /\ UNCHANGED <<fs, fs0, run, idx, fixed_count, original_content, opens,
                   output, raised>>

ApplyPattern2 ==
    /\ pc = "sub2"
    /\ content' = re_sub(pattern2, replacement2, content)
    /\ pc' = "compare"
    /\ UNCHANGED <<fs, fs0, run, idx, fixed_count, original_content, opens,
                   output, raised>>

\* Faulty variant: the file is written whether or not the text changed
WriteFixed_unconditional ==
    /\ pc = "compare"
    /\ opens' = opens + 1
    /\ fs' = [ fs EXCEPT ![filepath(idx)] = Encode(content) ]
    /\ output' = Append(output, Notice("Fixed", filepath(idx)))
    /\ fixed_count' = fixed_count + 1
    /\ idx' = idx + 1
    /\ pc' = "loop"
    /\ UNCHANGED <<fs0, run, content, original_content, raised>>

\* Faulty variant: the file is opened with 'a', the new text is appended
WriteFixed_append ==
    /\ pc = "compare"
    /\ content # original_content
    /\ opens' = opens + 1
    /\ fs' = [ fs EXCEPT ![filepath(idx)] = fs[filepath(idx)] \o Encode(content) ]
    /\ output' = Append(output, Notice("Fixed", filepath(idx)))
    /\ fixed_count' = fixed_count + 1
    /\ idx' = idx + 1
    /\ pc' = "loop"
    /\ UNCHANGED <<fs0, run, content, original_content, raised>>

\* content != original_content: write, print, return True; main counts it
WriteFixed ==
    /\ pc = "compare"
    /\ content # original_content
    /\ opens' = opens + 1
    /\ fs' = [ fs EXCEPT ![filepath(idx)] = Encode(content) ]
    /\ output' = Append(output, Notice("Fixed", filepath(idx)))
    /\ fixed_count' = fixed_count + 1
    /\ idx' = idx + 1
    /\ pc' = "loop"
    /\ UNCHANGED <<fs0, run, content, original_content, raised>>

\* the open for writing or the write raises; nothing catches it
WriteFail ==
    /\ pc = "compare"
    /\ content # original_content
    /\ opens' = opens + 1
    /\ \E b \in FailedWriteOutcomes(fs[filepath(idx)], content) :
          fs' = [ fs EXCEPT ![filepath(idx)] = b ]
    /\ raised' = TRUE
    /\ pc' = "crashed"
    /\ UNCHANGED <<fs0, run, idx, fixed_count, content, original_content,
                   output>>

\* Faulty variant: an unchanged file is counted as fixed
NoChanges_counted ==
    /\ pc = "compare"
    /\ content = original_content
    /\ output' = Append(output, Notice("NoChange", filepath(idx)))
    /\ fixed_count' = fixed_count + 1
    /\ idx' = idx + 1
    /\ pc' = "loop"
    /\ UNCHANGED <<fs, fs0, run, content, original_content, opens, raised>>

\* Faulty variant: an unchanged file is passed over without a notice
NoChanges_silent ==
    /\ pc = "compare"
    /\ content = original_content
    /\ idx' = idx + 1
    /\ pc' = "loop"
    /\ UNCHANGED <<fs, fs0, run, fixed_count, content, original_content,
                   opens, output, raised>>

\* content == original_content: print, return False
NoChanges ==
    /\ pc = "compare"
    /\ content = original_content
    /\ output' = Append(output, Notice("NoChange", filepath(idx)))
    /\ idx' = idx + 1
    /\ pc' = "loop"
    /\ UNCHANGED <<fs, fs0, run, fixed_count, content, original_content,
                   opens, raised>>

\* the loop is over: print the count
PrintSummary ==
    /\ pc = "loop"
    /\ idx > Len(files_to_fix)
    /\ output' = Append(output, Summary(fixed_count))
    /\ pc' = "done"
    /\ UNCHANGED <<fs, fs0, run, idx, fixed_count, content, original_content,
                   opens, raised>>

\* the script is started again after a run that completed
RunAgain ==
    /\ pc = "done"
    /\ run < MaxRuns
    /\ run' = run + 1
    /\ fs0' = fs
    /\ pc' = "loop"
    /\ idx' = 1
    /\ fixed_count' = 0
    /\ content' = << >>
    /\ original_content' = << >>
    /\ opens' = 0
    /\ output' = << >>
    /\ UNCHANGED <<fs, raised>>

Next ==
    \/ FileNotFound
    \/ ReadFile
    \/ ReadFail
    \/ ApplyPattern1
    \/ ApplyPattern2
    \/ WriteFixed
    \/ WriteFail
    \/ NoChanges
    \/ PrintSummary
    \/ RunAgain

Spec == Init /\ [][Next]_vars

SpecRules == InitRules /\ [][Next]_vars

-----------------------------------------------------------------------------
(* What the claims speak of, stated without the scanning loop of re.sub *)

Last(s) == s[Len(s)]

CountLex(text, x) == Cardinality({ k \in 1..Len(text) : text[k] = x })

\* text[lo..hi] is a run of one or more whitespace lexemes
SpaceRun(text, lo, hi) == lo <= hi /\ \A k \in lo..hi : IsSpace(text[k])

\* the positions e such that text[i..e] is the guarded idiom: the token
\* declaration, then the `if (!token)` block that redirects to '/'
GuardEnds(text, i) ==
    IF text[i] # "D" THEN { }
    ELSE { e \in (i + 1)..Len(text) :
             /\ text[e] = "C"
             /\ \E p \in (i + 1)..e :
                   /\ text[p] = "I"
                   /\ SpaceRun(text, i + 1, p - 1)
                   /\ \E q \in (p + 1)..e :
                         /\ text[q] = "H"
                         /\ SpaceRun(text, p + 1, q - 1)
                         /\ \E r \in (q + 1)..e :
                               /\ text[r] = "R"
                               /\ SpaceRun(text, q + 1, r - 1)
                               /\ SpaceRun(text, r + 1, e - 1) }

\* where the guarded idiom starts in text
GuardStarts(text) == { i \in 1..Len(text) : GuardEnds(text, i) # { } }

\* position k lies inside an occurrence of the guarded idiom, after its start
InsideGuard(text, k) ==
    \E i \in 1..(k - 1) : \E e \in GuardEnds(text, i) : k <= e

\* what position k of the text read becomes in the text produced
Piece(text, k) ==
    IF k \in GuardStarts(text) THEN replacement1
    ELSE IF InsideGuard(text, k) THEN << >>
    ELSE IF text[k] = "D" THEN replacement2
    ELSE << text[k] >>

RECURSIVE PiecesFrom(_, _)
PiecesFrom(text, k) ==
    IF k > Len(text) THEN << >> ELSE Piece(text, k) \o PiecesFrom(text, k + 1)

Expected(text) == PiecesFrom(text, 1)

\* the two rules in the order of fix_file, and in the other order
RuleAThenB(text) ==
    re_sub(pattern2, replacement2, re_sub(pattern1, replacement1, text))

RuleBThenA(text) ==
    re_sub(pattern1, replacement1, re_sub(pattern2, replacement2, text))

InFixFile == pc \in { "sub1", "sub2", "compare" }

Index(path) == CHOOSE i \in 1..Len(files_to_fix) : filepath(i) = path

Changed == { p \in Paths : fs[p] # fs0[p] }

-----------------------------------------------------------------------------
(* C1 *)

\* C1: the rules are idempotent: once both rules have run, running both
\* again on the result changes nothing; and a run that re-reads a file the
\* run before it left behind ends with the text it read.
C1_Idempotent ==
    pc = "compare" =>
        /\ RuleAThenB(content) = content
        /\ run > 1 => content = original_content

C1_Witness ==
    /\ run = 2
    /\ pc = "compare"
    /\ fs0[filepath(1)] # Missing
    /\ CountLex(content, "TS") >= 1
    /\ CountLex(content, "TQ") >= 1
    /\ CountLex(content, "I") >= 1

-----------------------------------------------------------------------------
(* C2 *)

\* C2: when the text read holds the guarded idiom, Rule B before Rule A would
\* give another text than fix_file gives; fix_file's text is the one with
\* every guarded idiom turned into the session check that redirects to
\* '/index.html', and none of their `if (!token)` blocks is left.
C2_RuleAFirst ==
    (pc = "compare" /\ GuardStarts(original_content) # { }) =>
        LET n == Cardinality(GuardStarts(original_content))
        IN  /\ content # RuleBThenA(original_content)
            /\ CountLex(content, "HI") = CountLex(original_content, "HI") + n
            /\ CountLex(content, "IS") = CountLex(original_content, "IS") + n
            /\ CountLex(content, "I") = CountLex(original_content, "I") - n
            /\ CountLex(content, "H") = CountLex(original_content, "H") - n

C2_Witness ==
    /\ pc = "compare"
    /\ Cardinality(GuardStarts(original_content)) = 2
    /\ CountLex(original_content, "D") = 3
    /\ CountLex(content, "HI") = 2
    /\ CountLex(content, "TQ") = 1

-----------------------------------------------------------------------------
(* C3 *)

NoPattern(bytes) == CountLex(bytes, "D") = 0

\* C3: a file that exists and holds neither pattern is never written: its
\* bytes stay what they were, no open for writing happens in its call, and
\* the call ends with the 'No changes needed' notice and without counting.
C3_NoOp ==
    /\ [](\A i \in 1..Len(files_to_fix) :
            (fs0[filepath(i)] # Missing /\ NoPattern(fs0[filepath(i)])) =>
                /\ fs[filepath(i)] = fs0[filepath(i)]
                /\ (i = idx /\ (InFixFile \/ pc = "crashed")) => opens = 0
                /\ (i < idx) => /\ output[i].kind = "NoChange"
                                /\ output[i].path = filepath(i))
    /\ [][(pc = "compare" /\ NoPattern(fs[filepath(idx)])) =>
            /\ fs' = fs
            /\ opens' = 0
            /\ fixed_count' = fixed_count
            /\ ~raised'
            /\ Len(output') = Len(output) + 1
            /\ Last(output').kind = "NoChange"
            /\ Last(output').path = filepath(idx)]_vars

C3_Witness ==
    /\ pc = "loop"
    /\ idx > 1
    /\ fs0[filepath(idx - 1)] # Missing
    /\ NoPattern(fs0[filepath(idx - 1)])
    /\ Len(output) = idx - 1
    /\ Last(output).kind = "NoChange"

-----------------------------------------------------------------------------
(* C4 *)

\* C4: for an entry whose path does not exist, main prints 'File not found'
\* for that path, does not enter fix_file, raises nothing, leaves the count
\* and the files alone, and moves to the next entry of the list.
C4_MissingFile ==
    [][(InLoop /\ fs[filepath(idx)] = Missing) =>
          /\ Len(output') = Len(output) + 1
          /\ Last(output').kind = "NotFound"
          /\ Last(output').path = filepath(idx)
          /\ SubSeq(output', 1, Len(output)) = output
          /\ fixed_count' = fixed_count
          /\ fs' = fs
          /\ ~raised'
          /\ pc' = "loop"
          /\ idx' = idx + 1
          /\ <<content, original_content, opens>>'
                = <<content, original_content, opens>>]_vars

C4_Witness ==
    /\ \E k \in 1..(Len(output) - 1) :
          /\ output[k].kind = "NotFound"
          /\ output[k + 1].kind = "Fixed"
    /\ pc = "done"
    /\ Last(output).n = 1

-----------------------------------------------------------------------------
(* C5 *)

\* C5: while the run has not failed, fixed_count is the number of files the
\* run has rewritten so far, all of them entries before the current one; the
\* count of the final line is the number of files whose bytes the run changed.
C5_Count ==
    /\ ~raised =>
          /\ fixed_count = Cardinality(Changed)
          /\ \A p \in Changed : Index(p) < idx
    /\ pc = "done" =>
          /\ Last(output).kind = "Summary"
          /\ Last(output).n = Cardinality(Changed)

C5_Witness ==
    /\ pc = "done"
    /\ Last(output).n = 1
    /\ \E k \in 1..Len(output) : output[k].kind = "NoChange"
    /\ \E k \in 1..Len(output) : output[k].kind = "NotFound"

-----------------------------------------------------------------------------
(* C6 *)

\* C6: a call of fix_file opens the file for writing at most once, and does
\* so exactly when the text after both rules differs from the text read; a
\* write that completes leaves the whole transformed text as the file, and
\* no other file is touched.
C6_WriteOnlyOnChange ==
    /\ [](opens <= 1 /\ (InFixFile => opens = 0))
    /\ [][pc = "compare" =>
            /\ opens' = (IF content # original_content THEN 1 ELSE 0)
            /\ (content = original_content) => fs' = fs
            /\ \A p \in Paths \ { filepath(idx) } : fs'[p] = fs[p]
            /\ ~raised' => fs'[filepath(idx)] =
                             (IF content # original_content
                              THEN content ELSE fs[filepath(idx)])]_vars

C6_Witness ==
    /\ pc = "loop"
    /\ idx > 1
    /\ opens = 1
    /\ content # original_content
    /\ fs[filepath(idx - 1)] = content
    /\ fs0[filepath(idx - 1)] # content

-----------------------------------------------------------------------------
(* C7 *)

\* C7: a run started after a run that completed writes nothing: the files
\* stay as that run found them, every file that exists gets 'No changes
\* needed', and the count printed is 0.
C7_SecondRunNoOp ==
    run > 1 =>
        /\ fs = fs0
        /\ opens = 0
        /\ fixed_count = 0
        /\ \A k \in 1..Len(output) :
              /\ output[k].kind # "Fixed"
              /\ (k <= Len(files_to_fix) /\ fs[filepath(k)] # Missing)
                    => output[k].kind = "NoChange"
        /\ pc = "done" => Last(output).n = 0

C7_Witness ==
    /\ run = 2
    /\ pc = "done"
    /\ Last(output).n = 0
    /\ Cardinality({ k \in 1..Len(output) : output[k].kind = "NoChange" }) = 2
    /\ \E p \in Paths : CountLex(fs[p], "TS") = 1 /\ CountLex(fs[p], "TQ") = 1
    /\ \E p \in Paths : CountLex(fs[p], "TQ") = 2

-----------------------------------------------------------------------------
(* C8 *)

\* C8: once open, read or write has raised, the run is over: nothing is
\* read, written or printed after it, no 'Fixed N files' line exists, and
\* the failing step itself leaves every other file, the lines printed and
\* the count as they were.
C8_FailureHalts ==
    /\ [](raised =>
            /\ pc = "crashed"
            /\ Len(output) = idx - 1
            /\ \A k \in 1..Len(output) : output[k].kind # "Summary"
            /\ \A i \in (idx + 1)..Len(files_to_fix) :
                  fs[filepath(i)] = fs0[filepath(i)])
    /\ [][raised => FALSE]_vars
    /\ [][(~raised /\ raised') =>
            /\ output' = output
            /\ fixed_count' = fixed_count
            /\ \A p \in Paths \ { filepath(idx) } : fs'[p] = fs[p]]_vars

C8_Witness ==
    /\ raised
    /\ idx = 5
    /\ \E k \in 1..Len(output) : output[k].kind = "Fixed"
    /\ fs[filepath(idx)] # Missing
    /\ fs[filepath(idx)] # fs0[filepath(idx)]
    /\ fs[filepath(idx)] # << >>

-----------------------------------------------------------------------------
(* C9 *)

EntryKinds == { "Fixed", "NoChange", "NotFound" }

\* C9: entry k of the list gets exactly one notice, the k-th line printed,
\* of the kind its file calls for; no file at or after the current entry has
\* been written while its notice is not out; the summary is the one line
\* after the notice of the last entry.
C9_OutputOrder ==
    /\ pc \in { "loop", "sub1", "sub2", "compare", "crashed" } =>
          Len(output) = idx - 1
    /\ \A k \in 1..Len(output) :
          IF k <= Len(files_to_fix)
          THEN /\ output[k].kind \in EntryKinds
               /\ output[k].path = filepath(k)
               /\ output[k].kind = "NotFound" <=> fs0[filepath(k)] = Missing
               /\ output[k].kind = "Fixed" <=> fs[filepath(k)] # fs0[filepath(k)]
          ELSE output[k].kind = "Summary"
    /\ ~raised => \A i \in idx..Len(files_to_fix) :
                     fs[filepath(i)] = fs0[filepath(i)]
    /\ pc = "done" => Len(output) = Len(files_to_fix) + 1

C9_Witness ==
    /\ pc = "done"
    /\ run = 1
    /\ Len(output) = Len(files_to_fix) + 1
    /\ \E j, k \in 1..Len(files_to_fix) :
          /\ j < k
          /\ output[j].kind = "NoChange"
          /\ output[k].kind = "Fixed"

-----------------------------------------------------------------------------
(* C10 *)

\* C10: the text fix_file produces holds no bare token declaration; it is
\* the text read with every guarded idiom turned into Rule A's template,
\* every other token declaration into Rule B's template, and all else,
\* the text of Rule A's template included, as it was.
C10_AllConsumed ==
    pc = "compare" =>
        /\ CountLex(content, "D") = 0
        /\ content = Expected(original_content)

C10_Witness ==
    /\ pc = "compare"
    /\ run = 1
    /\ GuardStarts(original_content) = { 2 }
    /\ CountLex(original_content, "D") = 3
    /\ original_content[1] = "D"
    /\ CountLex(content, "TQ") = 2
    /\ CountLex(content, "TS") = 1

=============================================================================
